---- MODULE Spec2Model ----
(***************************************************************************)
(* Account lifecycle of the Booty backend (backend/controllers/            *)
(* userController.js): registerUser, verifyEmail and signinCustomer over   *)
(* the MongoDB User collection (RecordStore), Firebase Authentication      *)
(* (CredentialProvider) and the Gmail mailer (Notifier).                   *)
(*                                                                         *)
(* Every request is an async Express handler.  Node runs a handler         *)
(* atomically between two awaits, so one action of the model is the code   *)
(* from one await to the next, together with the external call the await   *)
(* waits for.  Requests run in the slots Procs and interleave at awaits.   *)
(***************************************************************************)
EXTENDS Integers, FiniteSets, Sequences, TLC

\* ---------------------------------------------------------------- bounds
MaxTokens == 2      \* verification tokens crypto.randomBytes may hand out
TickHours == 24     \* hours the wall clock advances in one Tick
MaxTime   == 24     \* the wall clock stops advancing here (hours)

\* ------------------------------------------------------ program constants
TokenTTLHours == 24 \* setHours(getHours() + 24)
NoToken       == 0  \* verificationToken = undefined; a missing ?token=
NoDate        == -1 \* verificationTokenExpires = undefined
NoUser        == 0  \* findOne returned null

Procs     == {1, 2}   \* two request slots: any two requests may overlap
Tokens    == 1..MaxTokens
Emails    == {"a@x.com", "b@x.com"}
CaseEmails == {"a@x.com", "A@x.com"}   \* one address in two spellings
Passwords == {"secret1", "wrong"}   \* what a login may present
RegPasswords == {"secret1"}          \* what a registration chooses
Empty     == ""     \* a falsy req.body field

VARIABLES
  now,       \* wall clock, in hours (new Date())
  store,     \* the User collection: a set of documents
  provider,  \* Firebase Authentication: a set of identities
  issued,    \* number of tokens crypto.randomBytes has produced so far
  pc,        \* pc[p]: the await the request in slot p is parked at
  req,       \* req[p]: req.body / req.query of the request in slot p
  loc,       \* loc[p]: the handler's local variables, and the mail it sent
  resp       \* resp[p]: the response sent (status, message)

vars == <<now, store, provider, issued, pc, req, loc, resp>>

\* ------------------------------------------------------------ messages
MsgAddEmail     == "Please add email"
MsgAddPassword  == "Please add password"
MsgExists       == "A user with that email already exists"
MsgFirebaseErr  == "Error creating Firebase user"
MsgCreateErr    == "Error creating user"
MsgRegistered   == "User registered successfully. Please check your email to verify your account."
MsgTokenMissing == "Verification token is required."
MsgTokenInvalid == "Invalid or expired verification token. Please request a new verification email."
MsgVerified     == "Email Verified Successfully!"
MsgRequired     == "Email and password are required"
MsgInvalidLogin == "Invalid email or password"
MsgUnverified   == "Please verify your email address before logging in. Check your inbox for the verification email."
MsgLoginOk      == "Login successful"
MsgAuthFailed   == "Authentication failed"
MsgUnhandled    == "unhandled rejection"

NoReq  == [op |-> "none", email |-> Empty, password |-> Empty, token |-> NoToken]
\* Variant: the link of the mail is built without the token.
MailWithoutToken(to, token) == [to |-> to, token |-> NoToken]

\* sendVerificationEmail(email, verificationToken, baseUrl): the mail handed
\* to the SMTP transport, with its recipient and the token of its link.
Mail(to, token) == [to |-> to, token |-> token]
NoMail == Mail(Empty, NoToken)

NoLoc  == [verificationToken |-> NoToken, verificationTokenExpires |-> NoDate,
           user |-> NoUser, error |-> "none", mail |-> NoMail]
\* A response body without a data object.
NoData == [field \in {} |-> Empty]
NoResp == [status |-> 0, message |-> "", data |-> NoData]

Response(status, message) == [status |-> status, message |-> message, data |-> NoData]

\* `${prefix}: ${error.message}`: the text of the caught error, which names
\* what went wrong inside the failing system, is put into the message.
WithDetail(prefix, error) == prefix \o ": " \o error

\* An address in lower case.
Lower(email) == IF email = "A@x.com" THEN "a@x.com" ELSE email

\* ------------------------------------------------ RecordStore (MongoDB)
\* Variant: the schema compares email values as they are spelled.
EmailKeyExact(email) == email

\* The email path of the User schema: values that differ only in letter case
\* are the same key, for queries and for the unique index.
EmailKey(email) == Lower(email)

\* User.findOne({ email }): the documents the query can return.
FindByEmail(docs, email) == {u \in docs : EmailKey(u.email) = EmailKey(email)}

\* Variant: the expiry compared with $gte instead of $gt.
FindByTokenGte(docs, token, t) ==
  {u \in docs : u.verificationToken = token /\ u.verificationTokenExpires >= t}

\* User.findOne({ verificationToken: token,
\*                verificationTokenExpires: { $gt: new Date() } })
FindByToken(docs, token, t) ==
  {u \in docs : u.verificationToken = token /\ u.verificationTokenExpires > t}

\* bcrypt.hash(password, saltRounds): one-way, so a digest is never a password.
Hash(password) == <<"bcrypt", password>>

\* ObjectId given to a document by User.create: distinct from every stored _id.
NewId(docs) == Cardinality(docs) + 1

\* Variant: the document is created without token and expiry.
NewUserObjectNoToken(id, email, hashedPassword, verificationToken, verificationTokenExpires) ==
  [id |-> id,
   email |-> email,
   password |-> hashedPassword,
   isVerified |-> FALSE,
   verificationToken |-> NoToken,
   verificationTokenExpires |-> NoDate]

\* Variant: the document is created already verified.
NewUserObjectVerified(id, email, hashedPassword, verificationToken, verificationTokenExpires) ==
  [id |-> id,
   email |-> email,
   password |-> hashedPassword,
   isVerified |-> TRUE,
   verificationToken |-> verificationToken,
   verificationTokenExpires |-> verificationTokenExpires]

\* newUserObject: the document registerUser hands to User.create.
NewUserObject(id, email, hashedPassword, verificationToken, verificationTokenExpires) ==
  [id |-> id,
   email |-> email,
   password |-> hashedPassword,
   isVerified |-> FALSE,
   verificationToken |-> verificationToken,
   verificationTokenExpires |-> verificationTokenExpires]

\* Variant: the schema has no unique index on email.
UserCreateOutcomesNoIndex(docs, email) == {"ok", "store-unavailable"}

\* The unique index on email of the User schema: what User.create answers.
\* The collection may also fail for reasons of its own.
UserCreateOutcomes(docs, email) ==
  (IF FindByEmail(docs, email) # {} THEN {"E11000"} ELSE {"ok"})
    \cup {"store-unavailable"}

\* Variant: the token is left on the verified document.
MarkVerifiedKeepToken(u) == [u EXCEPT !.isVerified = TRUE]

\* Variant: the token is cleared but its expiry is left behind.
MarkVerifiedKeepExpiry(u) ==
  [u EXCEPT !.isVerified = TRUE, !.verificationToken = NoToken]

\* Variant: the flag is flipped instead of set.
MarkVerifiedToggle(u) ==
  [u EXCEPT !.isVerified = ~u.isVerified,
            !.verificationToken = NoToken,
            !.verificationTokenExpires = NoDate]

\* user.isVerified = true; user.verificationToken = undefined;
\* user.verificationTokenExpires = undefined
MarkVerified(u) ==
  [u EXCEPT !.isVerified = TRUE,
            !.verificationToken = NoToken,
            !.verificationTokenExpires = NoDate]

\* Variant: the update is applied without the _id filter.
SaveVerifiedAll(docs, id) == {MarkVerified(u) : u \in docs}

\* user.save(): the update is applied to the stored document with user._id.
SaveVerified(docs, id) == {IF u.id = id THEN MarkVerified(u) ELSE u : u \in docs}

\* ------------------------------------- CredentialProvider (Firebase Auth)
\* Firebase keeps the address of an identity in lower case.
Identity(email, password) == [email |-> Lower(email), password |-> password]

HasIdentity(identities, email) == \E i \in identities : i.email = Lower(email)

\* firebaseUser.user.uid: the reference Firebase gives to the identity.
Uid(email) == <<"uid", Lower(email)>>

\* Variant: Firebase creates a second identity for an address it has.
CreateUserOutcomesNoDuplicates(identities, email) ==
  {"ok", "auth/network-request-failed"}

\* createUserWithEmailAndPassword(auth, email, password)
CreateUserOutcomes(identities, email) ==
  (IF HasIdentity(identities, email) THEN {"auth/email-already-in-use"} ELSE {"ok"})
    \cup {"auth/network-request-failed"}

\* signInWithEmailAndPassword(auth, email, password), then getIdToken()
SignInOutcomes(identities, email, password) ==
  (IF Identity(email, password) \in identities THEN {"ok", "auth/user-token-expired"}
   ELSE IF HasIdentity(identities, email) THEN {"auth/wrong-password", "auth/invalid-credential"}
   ELSE {"auth/user-not-found", "auth/invalid-credential"})
    \cup {"auth/network-request-failed"}

\* ------------------------------------------- decisions of the handlers
\* Variant: the field is not validated.
MissingNever(field) == FALSE

\* registerUser: if (!email), if (!password)
Missing(field) == field = Empty

\* Variant: the pre-check is skipped.
UserExistsNever(docs, email) == FALSE

\* registerUser: if (userExists)
UserExists(docs, email) == FindByEmail(docs, email) # {}

\* Variant: the catch answers 400 for every error of Firebase.
FirebaseCreateErrorAll400(error) == Response(400, MsgExists)

\* Variant: the catch does not recognise auth/email-already-in-use.
FirebaseCreateErrorAll500(error) == Response(500, WithDetail(MsgFirebaseErr, error))

\* registerUser: catch around createUserWithEmailAndPassword
FirebaseCreateError(error) ==
  IF error = "auth/email-already-in-use"
    THEN Response(400, MsgExists)
    ELSE Response(500, WithDetail(MsgFirebaseErr, error))

\* Variant: the catch reports every error of User.create as a duplicate.
UserCreateErrorDuplicate(error) == Response(400, MsgExists)

\* registerUser: catch around User.create
UserCreateError(error) == Response(500, WithDetail(MsgCreateErr, error))

\* Variant: the error of sendVerificationEmail is not caught.
RegisteredResponseUnlessEmailFails(user, delivered) ==
  IF delivered THEN Response(200, MsgRegistered) ELSE Response(500, MsgUnhandled)

\* Variant: the created document is sent back to the caller.
RegisteredResponseReturnsUser(user, delivered) ==
  [status |-> 200, message |-> MsgRegistered, data |-> user]

\* registerUser: try { await sendVerificationEmail } catch { log }; then
\* if (user) res.status(200).json({ message, success: true })
RegisteredResponse(user, delivered) == Response(200, MsgRegistered)

\* Variant: the 24 hours are not added to the date.
TokenExpiryNow(t) == t

\* registerUser: verificationTokenExpires = now + 24 hours
TokenExpiry(t) == t + TokenTTLHours

\* Variant: the rejection of user.save() is swallowed and the success page sent.
SaveErrorReportsVerified(error) == Response(200, MsgVerified)

\* verifyEmail: await user.save() rejects; asyncHandler passes the error to
\* the error middleware.
SaveError(error) == Response(500, MsgUnhandled)

\* Variant: a token that a document still holds is reported as expired.
TokenLookupErrorTellsExpired(docs, token) ==
  IF \E u \in docs : u.verificationToken = token
    THEN Response(400, "Verification token has expired.")
    ELSE Response(400, MsgTokenInvalid)

\* verifyEmail: if (!user), whatever kept the query from matching
TokenLookupError(docs, token) == Response(400, MsgTokenInvalid)

\* Variant: the missing document is not tested for, and reading
\* user.isVerified of null throws.
UserNotFoundCrash(email) == Response(500, MsgUnhandled)

\* signinCustomer: if (!user)
UserNotFoundError(email) == Response(401, MsgInvalidLogin)

\* Variant: the test of the verification gate is inverted.
LoginBlockedInverted(user) == user.isVerified

\* Variant: the verification gate is missing.
LoginBlockedNever(user) == FALSE

\* signinCustomer: if (!user.isVerified)
LoginBlocked(user) == ~user.isVerified

\* firebaseUser.getIdToken(): the session token of the identity.
IdToken(email) == <<"idToken", Lower(email)>>

\* Variant: the whole user document is sent back with the token.
LoginResponseWholeUser(user, idToken) ==
  [status |-> 200, message |-> MsgLoginOk,
   data |-> [id |-> user.id, email |-> user.email, name |-> Empty, username |-> Empty,
             password |-> user.password, isVerified |-> user.isVerified,
             verificationToken |-> user.verificationToken,
             verificationTokenExpires |-> user.verificationTokenExpires,
             idToken |-> idToken]]

\* signinCustomer: res.status(200).json({ success, message, data: { id,
\* email, name, username, idToken } }); name and username are profile
\* fields, which the documents of the model do not carry.
LoginResponse(user, idToken) ==
  [status |-> 200, message |-> MsgLoginOk,
   data |-> [id |-> user.id, email |-> user.email, name |-> Empty, username |-> Empty,
             idToken |-> idToken]]

\* Variant: every error of the sign-in is answered 401.
SignInErrorAll401(error) == Response(401, MsgInvalidLogin)

\* Variant: a wrong password gets a message of its own.
SignInErrorTellsWrongPassword(error) ==
  IF error \in {"auth/wrong-password", "auth/invalid-credential"}
    THEN Response(401, "Wrong password")
    ELSE IF error = "auth/user-not-found"
      THEN Response(401, MsgInvalidLogin)
      ELSE Response(500, WithDetail(MsgAuthFailed, error))

\* Variant: auth/wrong-password is not among the codes answered 401.
SignInErrorNoWrongPassword(error) ==
  IF error \in {"auth/user-not-found", "auth/invalid-credential"}
    THEN Response(401, MsgInvalidLogin)
    ELSE Response(500, WithDetail(MsgAuthFailed, error))

\* signinCustomer: catch around signInWithEmailAndPassword / getIdToken
SignInError(error) ==
  IF error \in {"auth/user-not-found", "auth/wrong-password", "auth/invalid-credential"}
    THEN Response(401, MsgInvalidLogin)
    ELSE Response(500, WithDetail(MsgAuthFailed, error))

\* ----------------------------------------------------------------- Init
Init ==
  /\ now = 0
  /\ store = {}
  /\ provider = {}
  /\ issued = 0
  /\ pc = [p \in Procs |-> "idle"]
  /\ req = [p \in Procs |-> NoReq]
  /\ loc = [p \in Procs |-> NoLoc]
  /\ resp = [p \in Procs |-> NoResp]

\* res.status(..).json/send, or the error middleware answering a throw.
Reply(p, r) ==
  /\ pc' = [pc EXCEPT ![p] = "done"]
  /\ resp' = [resp EXCEPT ![p] = r]

Goto(p, label) ==
  /\ pc' = [pc EXCEPT ![p] = label]
  /\ UNCHANGED resp

\* Registrations that have not drawn their token yet.
TokensReserved == Cardinality({q \in Procs : pc[q] \in {"reg_find", "reg_hash"}})

\* ------------------------------------------------------- registerUser
\* POST /register_user: validation, then await User.findOne({ email }).
RegisterUser(p, email, password) ==
  /\ pc[p] = "idle"
  /\ req' = [req EXCEPT ![p] = [NoReq EXCEPT !.op = "register", !.email = email,
                                              !.password = password]]
  /\ IF Missing(email) THEN Reply(p, Response(400, MsgAddEmail))
     ELSE IF Missing(password) THEN Reply(p, Response(400, MsgAddPassword))
     ELSE /\ issued + TokensReserved < MaxTokens
          /\ Goto(p, "reg_find")
  /\ UNCHANGED <<now, store, provider, issued, loc>>

\* userExists = await User.findOne({ email }); then await bcrypt.hash.
RegFind(p) ==
  /\ pc[p] = "reg_find"
  /\ IF UserExists(store, req[p].email)
       THEN Reply(p, Response(400, MsgExists))
       ELSE Goto(p, "reg_hash")
  /\ UNCHANGED <<now, store, provider, issued, req, loc>>

\* crypto.randomBytes(32): a value never handed out before; expiry from
\* new Date(); then await createUserWithEmailAndPassword.
RegHash(p) ==
  /\ pc[p] = "reg_hash"
  /\ issued' = issued + 1
  /\ loc' = [loc EXCEPT ![p].verificationToken = issued + 1,
                        ![p].verificationTokenExpires = TokenExpiry(now)]
  /\ Goto(p, "reg_firebase")
  /\ UNCHANGED <<now, store, provider, req>>

\* Variant: the catch logs the error of Firebase and the handler goes on.
RegFirebaseIgnoresFailure(p) ==
  /\ pc[p] = "reg_firebase"
  /\ \E outcome \in CreateUserOutcomes(provider, req[p].email) :
       /\ provider' = IF outcome = "ok"
                        THEN provider \cup {Identity(req[p].email, req[p].password)}
                        ELSE provider
       /\ Goto(p, "reg_create")
       /\ UNCHANGED loc
  /\ UNCHANGED <<now, store, issued, req>>

\* Variant: a network failure of Firebase is noted and the call is made again.
RegFirebaseRetries(p) ==
  /\ pc[p] = "reg_firebase"
  /\ \E outcome \in CreateUserOutcomes(provider, req[p].email) :
       IF outcome = "ok"
         THEN /\ provider' = provider \cup {Identity(req[p].email, req[p].password)}
              /\ Goto(p, "reg_create")
              /\ UNCHANGED loc
         ELSE IF outcome = "auth/network-request-failed"
           THEN /\ loc' = [loc EXCEPT ![p].error = outcome]
                /\ UNCHANGED <<provider, pc, resp>>
           ELSE /\ loc' = [loc EXCEPT ![p].error = outcome]
                /\ Reply(p, FirebaseCreateError(outcome))
                /\ UNCHANGED provider
  /\ UNCHANGED <<now, store, issued, req>>

\* Firebase answers; on success the handler goes on to await User.create.
RegFirebase(p) ==
  /\ pc[p] = "reg_firebase"
  /\ \E outcome \in CreateUserOutcomes(provider, req[p].email) :
       IF outcome = "ok"
         THEN /\ provider' = provider \cup {Identity(req[p].email, req[p].password)}
              /\ Goto(p, "reg_create")
              /\ UNCHANGED loc
         ELSE /\ loc' = [loc EXCEPT ![p].error = outcome]
              /\ Reply(p, FirebaseCreateError(outcome))
              /\ UNCHANGED provider
  /\ UNCHANGED <<now, store, issued, req>>

\* MongoDB answers User.create; on success await sendVerificationEmail.
RegCreate(p) ==
  /\ pc[p] = "reg_create"
  /\ \E outcome \in UserCreateOutcomes(store, req[p].email) :
       IF outcome = "ok"
         THEN /\ store' = store \cup
                   {NewUserObject(NewId(store), req[p].email, Hash(req[p].password),
                                  loc[p].verificationToken,
                                  loc[p].verificationTokenExpires)}
              /\ loc' = [loc EXCEPT ![p].user = NewId(store)]
              /\ Goto(p, "reg_email")
         ELSE /\ loc' = [loc EXCEPT ![p].error = outcome]
              /\ Reply(p, UserCreateError(outcome))
              /\ UNCHANGED store
  /\ UNCHANGED <<now, provider, issued, req>>

\* sendVerificationEmail resolves or throws; the throw is logged and dropped.
RegEmail(p) ==
  /\ pc[p] = "reg_email"
  /\ \E delivered \in BOOLEAN :
       /\ loc' = [loc EXCEPT ![p].mail =
                    IF delivered THEN Mail(req[p].email, loc[p].verificationToken)
                                 ELSE NoMail]
       /\ Reply(p, RegisteredResponse(
                      NewUserObject(loc[p].user, req[p].email, Hash(req[p].password),
                                    loc[p].verificationToken,
                                    loc[p].verificationTokenExpires),
                      delivered))
  /\ UNCHANGED <<now, store, provider, issued, req>>

\* -------------------------------------------------------- verifyEmail
\* GET /verify-email?token=: validation, then await User.findOne.
VerifyEmail(p, token) ==
  /\ pc[p] = "idle"
  /\ req' = [req EXCEPT ![p] = [NoReq EXCEPT !.op = "verify", !.token = token]]
  /\ IF token = NoToken
       THEN Reply(p, Response(400, MsgTokenMissing))
       ELSE Goto(p, "ver_find")
  /\ UNCHANGED <<now, store, provider, issued, loc>>

\* The token query is answered; a hit is modified in memory, then await save.
VerFind(p) ==
  /\ pc[p] = "ver_find"
  /\ IF FindByToken(store, req[p].token, now) = {}
       THEN /\ Reply(p, TokenLookupError(store, req[p].token))
            /\ UNCHANGED loc
       ELSE \E u \in FindByToken(store, req[p].token, now) :
              /\ loc' = [loc EXCEPT ![p].user = u.id]
              /\ Goto(p, "ver_save")
  /\ UNCHANGED <<now, store, provider, issued, req>>

\* user.save() resolves, or rejects and the error middleware answers.
VerSave(p) ==
  /\ pc[p] = "ver_save"
  /\ \E saved \in BOOLEAN :
       IF saved
         THEN /\ store' = SaveVerified(store, loc[p].user)
              /\ Reply(p, Response(200, MsgVerified))
              /\ UNCHANGED loc
         ELSE /\ loc' = [loc EXCEPT ![p].error = "store-unavailable"]
              /\ Reply(p, SaveError("store-unavailable"))
              /\ UNCHANGED store
  /\ UNCHANGED <<now, provider, issued, req>>

\* ----------------------------------------------------- signinCustomer
\* POST /signin_customer: validation, then await User.findOne({ email }).
SigninCustomer(p, email, password) ==
  /\ pc[p] = "idle"
  /\ req' = [req EXCEPT ![p] = [NoReq EXCEPT !.op = "login", !.email = email,
                                              !.password = password]]
  /\ IF email = Empty \/ password = Empty
       THEN Reply(p, Response(400, MsgRequired))
       ELSE Goto(p, "login_find")
  /\ UNCHANGED <<now, store, provider, issued, loc>>

\* The lookup is answered and the verification gate applied; a verified
\* account goes on to await signInWithEmailAndPassword.
LoginFind(p) ==
  /\ pc[p] = "login_find"
  /\ IF FindByEmail(store, req[p].email) = {}
       THEN /\ Reply(p, UserNotFoundError(req[p].email))
            /\ UNCHANGED loc
       ELSE \E u \in FindByEmail(store, req[p].email) :
              IF LoginBlocked(u)
                THEN /\ Reply(p, Response(403, MsgUnverified))
                     /\ loc' = [loc EXCEPT ![p].user = u.id]
                ELSE /\ Goto(p, "login_firebase")
                     /\ loc' = [loc EXCEPT ![p].user = u.id]
  /\ UNCHANGED <<now, store, provider, issued, req>>

\* Variant: a sign-in that Firebase refuses sets the account back to
\* unverified.
LoginFirebaseLocksAccount(p) ==
  /\ pc[p] = "login_firebase"
  /\ \E outcome \in SignInOutcomes(provider, req[p].email, req[p].password) :
       /\ loc' = [loc EXCEPT ![p].error = outcome]
       /\ IF outcome = "ok"
            THEN /\ Reply(p, LoginResponse(CHOOSE u \in store : u.id = loc[p].user,
                                             IdToken(req[p].email)))
                 /\ UNCHANGED store
            ELSE /\ Reply(p, SignInError(outcome))
                 /\ store' = {IF u.id = loc[p].user THEN [u EXCEPT !.isVerified = FALSE]
                                                    ELSE u : u \in store}
  /\ UNCHANGED <<now, provider, issued, req>>

\* Firebase answers the sign-in (and getIdToken); success or the catch.
LoginFirebase(p) ==
  /\ pc[p] = "login_firebase"
  /\ \E outcome \in SignInOutcomes(provider, req[p].email, req[p].password) :
       /\ loc' = [loc EXCEPT ![p].error = outcome]
       /\ IF outcome = "ok"
            THEN Reply(p, LoginResponse(CHOOSE u \in store : u.id = loc[p].user,
                                        IdToken(req[p].email)))
            ELSE Reply(p, SignInError(outcome))
  /\ UNCHANGED <<now, store, provider, issued, req>>

\* ------------------------------------------------------------ the rest
\* The response has been delivered; the slot takes the next request.
Return(p) ==
  /\ pc[p] = "done"
  /\ pc' = [pc EXCEPT ![p] = "idle"]
  /\ req' = [req EXCEPT ![p] = NoReq]
  /\ loc' = [loc EXCEPT ![p] = NoLoc]
  /\ resp' = [resp EXCEPT ![p] = NoResp]
  /\ UNCHANGED <<now, store, provider, issued>>

\* Time passes.
Tick ==
  /\ now + TickHours <= MaxTime
  /\ now' = now + TickHours
  /\ UNCHANGED <<store, provider, issued, pc, req, loc, resp>>

Next ==
  \/ \E p \in Procs, e \in Emails \cup {Empty}, w \in RegPasswords \cup {Empty} :
       RegisterUser(p, e, w)
  \/ \E p \in Procs : RegFind(p)
  \/ \E p \in Procs : RegHash(p)
  \/ \E p \in Procs : RegFirebase(p)
  \/ \E p \in Procs : RegCreate(p)
  \/ \E p \in Procs : RegEmail(p)
  \/ \E p \in Procs, t \in Tokens \cup {NoToken} : VerifyEmail(p, t)
  \/ \E p \in Procs : VerFind(p)
  \/ \E p \in Procs : VerSave(p)
  \/ \E p \in Procs, e \in Emails \cup {Empty}, w \in Passwords \cup {Empty} :
       SigninCustomer(p, e, w)
  \/ \E p \in Procs : LoginFind(p)
  \/ \E p \in Procs : LoginFirebase(p)
  \/ \E p \in Procs : Return(p)
  \/ Tick

Spec == Init /\ [][Next]_vars

\* ----------------------------------------- cleanup of orphaned identities
\* registerUser leaves the Firebase identity behind when User.create fails
\* ("we should ideally delete the Firebase user").  The cleanup is done out of
\* band, at the provider: an identity that has no account in the store is
\* removed.  No handler of the backend does this.
ProviderDeleteIdentity(e) ==
  /\ HasIdentity(provider, e)
  /\ FindByEmail(store, e) = {}
  /\ provider' = {i \in provider : i.email # Lower(e)}
  /\ UNCHANGED <<now, store, issued, pc, req, loc, resp>>

\* The registration path alone, with the cleanup running beside it.
NextRegisterCleanup ==
  \/ \E p \in Procs, e \in Emails \cup {Empty}, w \in RegPasswords \cup {Empty} :
       RegisterUser(p, e, w)
  \/ \E p \in Procs : RegFind(p)
  \/ \E p \in Procs : RegHash(p)
  \/ \E p \in Procs : RegFirebase(p)
  \/ \E p \in Procs : RegCreate(p)
  \/ \E p \in Procs : RegEmail(p)
  \/ \E p \in Procs : Return(p)
  \/ Tick
  \/ \E e \in Emails : ProviderDeleteIdentity(e)

SpecRegisterCleanup == Init /\ [][NextRegisterCleanup]_vars

\* ------------------------------------------- every external call returns
\* The continuation of the request in slot p after the await it is parked at.
Continue(p) ==
  \/ RegFind(p) \/ RegHash(p) \/ RegFirebase(p) \/ RegCreate(p) \/ RegEmail(p)
  \/ VerFind(p) \/ VerSave(p)
  \/ LoginFind(p) \/ LoginFirebase(p)

\* Every awaited promise settles, so a parked handler is resumed.
SpecLive == Init /\ [][Next]_vars /\ \A p \in Procs : WF_vars(Continue(p))

\* -------------------------------------------- one address, two spellings
\* The three handlers, with requests that spell one address in two ways.
NextCaseVariants ==
  \/ \E p \in Procs, e \in CaseEmails, w \in RegPasswords : RegisterUser(p, e, w)
  \/ \E p \in Procs : RegFind(p)
  \/ \E p \in Procs : RegHash(p)
  \/ \E p \in Procs : RegFirebase(p)
  \/ \E p \in Procs : RegCreate(p)
  \/ \E p \in Procs : RegEmail(p)
  \/ \E p \in Procs, t \in Tokens : VerifyEmail(p, t)
  \/ \E p \in Procs : VerFind(p)
  \/ \E p \in Procs : VerSave(p)
  \/ \E p \in Procs, e \in CaseEmails, w \in Passwords : SigninCustomer(p, e, w)
  \/ \E p \in Procs : LoginFind(p)
  \/ \E p \in Procs : LoginFirebase(p)
  \/ \E p \in Procs : Return(p)
  \/ Tick

SpecCaseVariants == Init /\ [][NextCaseVariants]_vars

TypeOK ==
  /\ now \in 0..(MaxTime + TickHours)
  /\ issued \in 0..MaxTokens
  /\ \A u \in store : u.email \in Emails \cup CaseEmails /\ u.isVerified \in BOOLEAN
  /\ \A p \in Procs : resp[p].status \in {0, 200, 400, 401, 403, 500}

\* ------------------------------------------------ vocabulary of the claims
Done(p, op) == pc[p] = "done" /\ req[p].op = op

\* The request in slot p is answered by this step.
Replies(p, op) == pc[p] # "done" /\ pc'[p] = "done" /\ req'[p].op = op

\* An external system failed the request for a reason of its own (an outage),
\* as opposed to answering it.
Outages == {"auth/network-request-failed", "auth/user-token-expired", "store-unavailable"}

Account(e) == FindByEmail(store, e)
Pending(u) == ~u.isVerified
Unverified == Response(403, MsgUnverified)
TokenInvalidError == Response(400, MsgTokenInvalid)
DuplicateAccountError == Response(400, MsgExists)
AuthenticationError == Response(401, MsgInvalidLogin)
LoginSuccess(r) == r.status = 200 /\ r.message = MsgLoginOk

\* C1: login answers 200 for an email only if the stored account of that
\* email is verified, isVerified is set by nothing but a verify call that
\* answers Verified, and a login that finds an unverified account is answered
\* 403 Unverified.
C1_LoginGate ==
  [][\A p \in Procs :
       /\ (Replies(p, "login") /\ resp'[p].status = 200) =>
            \E u \in store' : u.email = req'[p].email /\ u.isVerified
       /\ (pc[p] = "login_find" /\ pc'[p] # "login_find"
             /\ \E u \in Account(req[p].email) : ~u.isVerified) =>
            resp'[p] = Unverified
       /\ \A u \in store' :
            (u.isVerified /\ ~(\E v \in store : v.id = u.id /\ v.isVerified)) =>
               \E q \in Procs : Replies(q, "verify") /\ resp'[q].status = 200
                                  /\ loc[q].user = u.id]_vars

C1_Witness ==
  \E p, q \in Procs :
    /\ Done(p, "login") /\ resp[p].status = 200
    /\ Done(q, "login") /\ resp[q] = Unverified
    /\ \E u \in Account(req[q].email) : ~u.isVerified

\* C2: registration persists the account unverified, and from then on, as
\* long as no verify has redeemed its token, a login with that email is
\* answered 403 Unverified whatever password it presents.
C2_RegisterThenLogin ==
  [][\A p \in Procs :
       /\ (pc[p] = "reg_create" /\ pc'[p] = "reg_email") =>
            \E u \in store' \ store :
               u.email = req[p].email /\ Pending(u) /\ u.verificationToken # NoToken
       /\ (pc[p] = "login_find" /\ pc'[p] # "login_find"
             /\ \E u \in Account(req[p].email) :
                   Pending(u) /\ u.verificationToken # NoToken) =>
            (pc'[p] = "done" /\ resp'[p] = Unverified)]_vars

C2_Witness ==
  \E p \in Procs :
    /\ Done(p, "login") /\ resp[p] = Unverified /\ req[p].password = "wrong"
    /\ \E u \in Account(req[p].email) : Pending(u) /\ u.password # Hash(req[p].password)
    /\ Cardinality(provider) = 1

\* A token that was handed out and that no account holds and no registration
\* in flight is about to store: redeemed, or lost with a failed registration.
Spent(t) ==
  /\ t \in 1..issued
  /\ \A u \in store : u.verificationToken # t
  /\ \A q \in Procs : pc[q] \in {"reg_firebase", "reg_create"} => loc[q].verificationToken # t

\* C3: a verify presenting the unexpired token of a pending account finds
\* that account; its save, unless the store is out, answers Verified, marks
\* the account verified and leaves the token on no account; a token no
\* account holds any more is never stored again, and a later verify that
\* presents it is answered TokenInvalidError and changes nothing.
C3_SingleUseToken ==
  [][/\ \A p \in Procs :
          /\ (pc[p] = "ver_find" /\ pc'[p] # "ver_find") =>
               \A u \in store :
                 (Pending(u) /\ u.verificationToken = req[p].token
                    /\ u.verificationTokenExpires > now) =>
                   (pc'[p] = "ver_save" /\ loc'[p].user = u.id)
          /\ (pc[p] = "ver_save" /\ pc'[p] # "ver_save") =>
               \/ loc'[p].error \in Outages
               \/ /\ resp'[p] = Response(200, MsgVerified)
                  /\ \E u \in store' : u.id = loc[p].user /\ u.isVerified
                  /\ \A u \in store' : u.verificationToken # req[p].token
          /\ (pc[p] = "ver_find" /\ pc'[p] # "ver_find" /\ Spent(req[p].token)) =>
               (resp'[p] = TokenInvalidError /\ store' = store)
     /\ \A t \in Tokens : Spent(t) => Spent(t)']_vars

C3_Witness ==
  \E p, q \in Procs :
    /\ Done(p, "verify") /\ resp[p] = Response(200, MsgVerified)
    /\ Done(q, "verify") /\ resp[q] = TokenInvalidError
    /\ req[p].token = req[q].token
    /\ Spent(req[q].token)
    /\ \E u \in store : u.id = loc[p].user /\ u.isVerified

\* C4: a verify whose token equals a stored token is answered
\* TokenInvalidError once the clock has reached the stored expiry, and then
\* nothing is written; it goes on to the save only for an account whose
\* expiry is strictly later than now.
C4_ExpiryStrict ==
  [][\A p \in Procs :
       (pc[p] = "ver_find" /\ pc'[p] # "ver_find") =>
         /\ ((\E u \in store : u.verificationToken = req[p].token)
               /\ \A u \in store : u.verificationToken = req[p].token
                                     => now >= u.verificationTokenExpires) =>
              (pc'[p] = "done" /\ resp'[p] = TokenInvalidError /\ store' = store)
         /\ pc'[p] = "ver_save" =>
              \E u \in store : /\ u.id = loc'[p].user
                               /\ u.verificationToken = req[p].token
                               /\ u.verificationTokenExpires > now]_vars

C4_Witness ==
  \E p \in Procs :
    /\ Done(p, "verify") /\ resp[p] = TokenInvalidError
    /\ \E u \in store : /\ Pending(u)
                        /\ u.verificationToken = req[p].token
                        /\ u.verificationTokenExpires <= now

\* C5: a registration whose email already has an account is answered
\* DuplicateAccountError by the pre-check; one whose email already has an
\* identity or an account when Firebase is asked ends there, answered
\* DuplicateAccountError unless Firebase itself is out; and an email that has
\* an account never gets another one.
C5_DuplicateRegister ==
  [][/\ \A p \in Procs :
          /\ (pc[p] = "reg_find" /\ pc'[p] # "reg_find"
                /\ Account(req[p].email) # {}) =>
               (pc'[p] = "done" /\ resp'[p] = DuplicateAccountError)
          /\ (pc[p] = "reg_firebase" /\ pc'[p] # "reg_firebase"
                /\ (HasIdentity(provider, req[p].email) \/ Account(req[p].email) # {})) =>
               /\ pc'[p] = "done"
               /\ resp'[p] = DuplicateAccountError \/ loc'[p].error \in Outages
     /\ \A e \in Emails :
          Account(e) # {} =>
            {u.id : u \in FindByEmail(store', e)} = {u.id : u \in Account(e)}]_vars

C5_Witness ==
  \E p \in Procs :
    /\ Done(p, "register") /\ resp[p] = DuplicateAccountError
    /\ loc[p].error = "auth/email-already-in-use"
    /\ Account(req[p].email) = {}
    /\ HasIdentity(provider, req[p].email)

\* C6: for a verified account a login is never answered Unverified; unless
\* Firebase is out, it is answered 200 when the password is the registered
\* one and AuthenticationError when it is not.
C6_LoginAfterVerify ==
  [][\A p \in Procs :
       (Replies(p, "login") /\ \E u \in Account(req'[p].email) : u.isVerified) =>
         /\ resp'[p] # Unverified
         /\ \A u \in Account(req'[p].email) :
              \/ loc'[p].error \in Outages
              \/ req'[p].email = Empty \/ req'[p].password = Empty
              \/ IF u.password = Hash(req'[p].password)
                   THEN LoginSuccess(resp'[p])
                   ELSE resp'[p] = AuthenticationError]_vars

C6_Witness ==
  \E p, q \in Procs :
    /\ Done(p, "login") /\ resp[p] = AuthenticationError
    /\ \E u \in Account(req[p].email) : u.isVerified /\ u.password # Hash(req[p].password)
    /\ Done(q, "login") /\ LoginSuccess(resp[q])
    /\ req[q].email = req[p].email

\* The registration in slot r got past its pre-check (and drew a token).
PassedPreCheck(r) == resp[r] = Response(200, MsgRegistered) \/ loc[r].error # "none"

\* The registrations in slots p and q are answered, asked for the same email,
\* met no outage, and no other registration ever got past its pre-check.
RacedRegisters(p, q) ==
  /\ p # q
  /\ Done(p, "register") /\ Done(q, "register")
  /\ req[p].email = req[q].email
  /\ req[p].email # Empty /\ req[p].password # Empty /\ req[q].password # Empty
  /\ loc[p].error \notin Outages /\ loc[q].error \notin Outages
  /\ issued = Cardinality({r \in {p, q} : PassedPreCheck(r)})

\* C7: of two registrations for one email, however their steps interleave,
\* exactly one is answered success and the other DuplicateAccountError, and
\* the store then holds exactly one account of that email.
C7_ConcurrentRegister ==
  \A p, q \in Procs :
    RacedRegisters(p, q) =>
      /\ \/ resp[p] = Response(200, MsgRegistered) /\ resp[q] = DuplicateAccountError
         \/ resp[q] = Response(200, MsgRegistered) /\ resp[p] = DuplicateAccountError
      /\ Cardinality(Account(req[p].email)) = 1

C7_Witness ==
  \E p, q \in Procs :
    /\ RacedRegisters(p, q)
    /\ PassedPreCheck(p) /\ PassedPreCheck(q)
    /\ resp[q] = DuplicateAccountError

\* C8: two verify calls that present the same token are never both answered
\* Verified.
C8_ConcurrentVerify ==
  \A p, q \in Procs :
    (p # q /\ Done(p, "verify") /\ Done(q, "verify") /\ req[p].token = req[q].token) =>
      ~(resp[p] = Response(200, MsgVerified) /\ resp[q] = Response(200, MsgVerified))

\* C10: a verified account has neither a verification token nor an expiry.
C10_VerifiedHasNoToken ==
  \A u \in store :
    u.isVerified => (u.verificationToken = NoToken /\ u.verificationTokenExpires = NoDate)

C10_Witness ==
  \E u \in store : u.isVerified /\ \E p \in Procs : Done(p, "verify") /\ loc[p].user = u.id

\* C9: when User.create rejects a registration with the duplicate-key error
\* of the unique index, the registration is answered DuplicateAccountError.
C9_UniquenessViolationIsDuplicate ==
  [][\A p \in Procs :
       (pc[p] = "reg_create" /\ pc'[p] = "done" /\ loc'[p].error = "E11000") =>
         resp'[p] = DuplicateAccountError]_vars

\* C11: an account has a token exactly when it has an expiry; the expiry
\* drawn with the token is the clock at that moment plus 24 hours, so later
\* than that moment; User.create stores that token and that expiry
\* unchanged, so the stored expiry is later than the moment of the create
\* whenever fewer than 24 hours have passed since the token was drawn.
C11_TokenAndExpiry ==
  [][/\ \A u \in store' :
          (u.verificationToken = NoToken) <=> (u.verificationTokenExpires = NoDate)
     /\ \A p \in Procs :
          /\ (pc[p] = "reg_hash" /\ pc'[p] = "reg_firebase") =>
               /\ loc'[p].verificationToken # NoToken
               /\ loc'[p].verificationTokenExpires = now + TokenTTLHours
               /\ loc'[p].verificationTokenExpires > now
          /\ (pc[p] = "reg_create" /\ pc'[p] = "reg_email") =>
               \E u \in store' \ store :
                 /\ u.verificationToken = loc[p].verificationToken
                 /\ u.verificationTokenExpires = loc[p].verificationTokenExpires
                 /\ (now - (u.verificationTokenExpires - TokenTTLHours) < TokenTTLHours)
                      => u.verificationTokenExpires > now]_vars

C11_Witness ==
  \E p \in Procs :
    /\ pc[p] = "reg_email"
    /\ \E u \in store : /\ u.id = loc[p].user
                        /\ u.verificationToken # NoToken
                        /\ u.verificationTokenExpires = now + TokenTTLHours

\* C12: no two accounts of the store have the same email.
C12_EmailUnique ==
  \A u, v \in store : u.email = v.email => u = v

C12_Witness ==
  \E p \in Procs :
    /\ Done(p, "register") /\ loc[p].error = "E11000"
    /\ Cardinality(Account(req[p].email)) = 1

\* C13: an account that is verified is left exactly as it is by every step:
\* it is never unverified again and never given a token again, so it became
\* verified once.
C13_VerifiedIsTerminal ==
  [][\A u \in store : u.isVerified => (u \in store' /\ u.verificationToken = NoToken)]_vars

C13_Witness ==
  \E p, q \in Procs :
    /\ Done(p, "verify") /\ resp[p] = Response(200, MsgVerified)
    /\ pc[q] = "ver_save" /\ loc[q].user = loc[p].user
    /\ \E u \in store : u.id = loc[p].user /\ u.isVerified

\* C14: a register call without email or without password is answered 400
\* by the step that receives it: no lookup, no Firebase call, no create and
\* no mail happen, and store and provider are left as they were.
C14_RegisterValidation ==
  [][\A p \in Procs :
       (/\ pc[p] = "idle" /\ req'[p].op = "register"
        /\ (req'[p].email = Empty \/ req'[p].password = Empty)) =>
         /\ pc'[p] = "done"
         /\ resp'[p] = Response(400, IF req'[p].email = Empty THEN MsgAddEmail
                                                              ELSE MsgAddPassword)
         /\ UNCHANGED <<store, provider, issued, loc>>]_vars

C14_Witness ==
  \E p \in Procs :
    /\ Done(p, "register")
    /\ req[p].email # Empty /\ req[p].password = Empty
    /\ resp[p] = Response(400, MsgAddPassword)
    /\ loc[p] = NoLoc

\* C15: when Firebase refuses to create the identity, the register call is
\* answered at once, 400 "already exists" for auth/email-already-in-use and
\* 500 for every other error; the store is not written, no identity is
\* added and no mail is sent.
C15_FirebaseCreateFails ==
  [][\A p \in Procs :
       (pc[p] = "reg_firebase" /\ loc'[p].error # "none") =>
         /\ pc'[p] = "done"
         /\ resp'[p] = IF loc'[p].error = "auth/email-already-in-use"
                         THEN DuplicateAccountError
                         ELSE Response(500, WithDetail(MsgFirebaseErr, loc'[p].error))
         /\ loc'[p].mail = NoMail /\ loc'[p].user = NoUser
         /\ UNCHANGED <<store, provider>>]_vars

C15_Witness ==
  \E p \in Procs :
    /\ Done(p, "register") /\ loc[p].error = "auth/network-request-failed"
    /\ resp[p].status = 500
    /\ Account(req[p].email) = {} /\ ~HasIdentity(provider, req[p].email)

\* C16: when User.create fails after Firebase created the identity, the
\* register call is answered 500, the store has no account of that email,
\* no mail is sent, and the identity stays: that step does not remove it and
\* no step ever removes an identity.
C16_StoreCreateFails ==
  [][/\ provider \subseteq provider'
     /\ \A p \in Procs :
          (pc[p] = "reg_create" /\ loc'[p].error # "none") =>
            /\ pc'[p] = "done"
            /\ resp'[p] = Response(500, WithDetail(MsgCreateErr, loc'[p].error))
            /\ loc'[p].mail = NoMail
            /\ UNCHANGED <<store, provider>>
            /\ FindByEmail(store', req[p].email) = {}
            /\ HasIdentity(provider', req[p].email)]_vars

C16_Witness ==
  \E p \in Procs :
    /\ Done(p, "register") /\ loc[p].error = "store-unavailable"
    /\ resp[p].status = 500
    /\ Account(req[p].email) = {} /\ HasIdentity(provider, req[p].email)

\* C17: once the account is created the register call is answered 200
\* whether or not the mail could be sent, and a failed send leaves the store
\* as it is, the new account included.
C17_MailFailureIgnored ==
  [][\A p \in Procs :
       (pc[p] = "reg_email" /\ pc'[p] # "reg_email") =>
         /\ pc'[p] = "done"
         /\ resp'[p] = Response(200, MsgRegistered)
         /\ store' = store
         /\ \E u \in store' : u.id = loc[p].user /\ u.email = req[p].email]_vars

C17_Witness ==
  \E p \in Procs :
    /\ Done(p, "register") /\ resp[p] = Response(200, MsgRegistered)
    /\ loc[p].mail = NoMail
    /\ \E u \in store : /\ u.id = loc[p].user /\ Pending(u)
                        /\ u.verificationToken = loc[p].verificationToken

\* C18: a verify call answered 200 writes one document, the one it found
\* by the presented token: that document ends verified with token and
\* expiry cleared and every other field as before; every other document
\* and the provider are left unchanged.
C18_VerifyFrame ==
  [][\A p \in Procs :
       /\ (pc[p] = "ver_find" /\ pc'[p] = "ver_save") =>
            \E u \in store : /\ u.id = loc'[p].user
                             /\ u.verificationToken = req[p].token
       /\ (pc[p] = "ver_save" /\ pc'[p] = "done" /\ resp'[p].status = 200) =>
            /\ provider' = provider
            /\ \E u \in store :
                 /\ u.id = loc[p].user
                 /\ u.verificationToken = req[p].token \/ u.isVerified
                 /\ store' = (store \ {u}) \cup
                      {[id |-> u.id, email |-> u.email, password |-> u.password,
                        isVerified |-> TRUE,
                        verificationToken |-> NoToken,
                        verificationTokenExpires |-> NoDate]}]_vars

C18_Witness ==
  \E p \in Procs :
    /\ Done(p, "verify") /\ resp[p] = Response(200, MsgVerified)
    /\ \E u, v \in store :
         /\ u.id = loc[p].user /\ u.isVerified
         /\ v.id # u.id /\ Pending(v) /\ v.verificationToken # NoToken

\* C19: a login call is at, or past, the Firebase sign-in only if the
\* account of its email was found in the store and is verified; a login
\* for a missing or unverified account never gets there.
C19_LocalStateFirst ==
  \A p \in Procs :
    (\/ pc[p] = "login_firebase"
     \/ Done(p, "login") /\ loc[p].error # "none") =>
      \E u \in store : /\ u.id = loc[p].user
                       /\ u.email = req[p].email
                       /\ u.isVerified

C19_Witness ==
  \E p, q \in Procs :
    /\ pc[p] = "login_firebase"
    /\ Done(q, "login") /\ resp[q] = Unverified /\ loc[q].error = "none"

\* A login call p is answered by this step, Firebase having answered if it
\* was asked, for an email and a password that are both given.
LoginAnswered(p) ==
  /\ Replies(p, "login")
  /\ req[p].email # Empty /\ req[p].password # Empty
  /\ loc'[p].error \notin Outages

WrongPassword(p, u) == u.password # Hash(req[p].password)

\* C20 as stated: a login for an email without account, and a login with a
\* wrong password for an existing account, verified or not, are both
\* answered 401 "Invalid email or password".
C20_LoginIndistinguishable ==
  [][\A p \in Procs :
       (/\ LoginAnswered(p)
        /\ \/ Account(req[p].email) = {}
           \/ \E u \in Account(req[p].email) : WrongPassword(p, u)) =>
         resp'[p] = AuthenticationError]_vars

\* C20 amended: a login for an email without account, and a login with a
\* wrong password for an existing verified account, are both answered 401
\* "Invalid email or password" when Firebase answers the sign-in; a login
\* for an existing unverified account is answered 403 "please verify"
\* whatever the password.
C20_LoginIndistinguishableVerified ==
  [][\A p \in Procs :
       LoginAnswered(p) =>
         /\ (\/ Account(req[p].email) = {}
             \/ \E u \in Account(req[p].email) : u.isVerified /\ WrongPassword(p, u))
              => resp'[p] = AuthenticationError
         /\ (\E u \in Account(req[p].email) : ~u.isVerified)
              => resp'[p] = Unverified]_vars

C20_Witness ==
  \E p, q \in Procs :
    /\ Done(p, "login") /\ Done(q, "login")
    /\ Account(req[p].email) = {}
    /\ \E u \in Account(req[q].email) : u.isVerified /\ WrongPassword(q, u)
    /\ loc[q].error \in {"auth/wrong-password", "auth/invalid-credential"}
    /\ resp[p] = AuthenticationError /\ resp[q] = resp[p]

\* C21: a login whose lookup finds no account of the email is answered
\* 401 "Invalid email or password" by the lookup step, Firebase not being
\* asked, whether or not Firebase holds an identity of that email.
C21_LoginUnknownEmail ==
  [][\A p \in Procs :
       (pc[p] = "login_find" /\ pc'[p] # "login_find" /\ Account(req[p].email) = {}) =>
         /\ pc'[p] = "done"
         /\ resp'[p] = AuthenticationError
         /\ loc'[p].error = "none"]_vars

C21_Witness ==
  \E p \in Procs :
    /\ Done(p, "login") /\ resp[p] = AuthenticationError /\ loc[p].error = "none"
    /\ Account(req[p].email) = {}
    /\ HasIdentity(provider, req[p].email)

BadCredential == {"auth/user-not-found", "auth/wrong-password", "auth/invalid-credential"}

\* C22: when Firebase fails the sign-in of a verified account, or getIdToken
\* fails after it, the login is answered 401 "Invalid email or password" for
\* the bad-credential codes and 500 for every other error, never 200.
C22_SignInFailureByKind ==
  [][\A p \in Procs :
       (pc[p] = "login_firebase" /\ pc'[p] # "login_firebase" /\ loc'[p].error # "ok") =>
         /\ \E u \in Account(req[p].email) : u.isVerified
         /\ pc'[p] = "done"
         /\ resp'[p].status # 200
         /\ IF loc'[p].error \in BadCredential
              THEN resp'[p] = AuthenticationError
              ELSE resp'[p].status = 500]_vars

C22_Witness ==
  \E p, q \in Procs :
    /\ Done(p, "login") /\ loc[p].error = "auth/user-token-expired"
    /\ resp[p].status = 500
    /\ Done(q, "login") /\ loc[q].error = "auth/wrong-password"
    /\ resp[q] = AuthenticationError

\* Two spellings of one address.
SameAddress(e1, e2) == Lower(e1) = Lower(e2)

C24_CredentialRefStored ==
  \A p \in Procs :
    (Done(p, "register") /\ resp[p].status = 200) =>
      \E u \in store : /\ u.id = loc[p].user
                       /\ "uid" \in DOMAIN u
                       /\ u.uid = Uid(req[p].email)

StoreErrors == {"E11000", "store-unavailable"}

\* Two answered calls of the same handler failed in the same external
\* system and were answered with the same status.
SameKindOfFailure(p, q) ==
  /\ req[p].op \in {"register", "login"} /\ req[q].op = req[p].op
  /\ pc[p] = "done" /\ pc[q] = "done"
  /\ resp[p].status = 500 /\ resp[q].status = 500
  /\ loc[p].error # "none" /\ loc[q].error # "none"
  /\ (loc[p].error \in StoreErrors) <=> (loc[q].error \in StoreErrors)

\* C25: two register calls, or two login calls, that failed in the same
\* external system with the same status get the same response, whatever
\* the error text of that system was.
C25_OpaqueFailures ==
  \A p, q \in Procs : SameKindOfFailure(p, q) => resp[p] = resp[q]

\* What registerUser can say: its fixed texts, and the two texts that quote
\* the error of Firebase or of MongoDB.
RegisterMessages ==
  {MsgAddEmail, MsgAddPassword, MsgExists, MsgRegistered}
    \cup {WithDetail(MsgFirebaseErr, e) : e \in {"auth/network-request-failed"}}
    \cup {WithDetail(MsgCreateErr, e) : e \in StoreErrors}

SecretFields ==
  {"password", "isVerified", "verificationToken", "verificationTokenExpires", "uid"}

\* C26: every response of register, 200 or not, is a message out of
\* RegisterMessages with no data object: no token, password, digest or uid
\* is in it.
C26_RegisterResponseHasNoSecrets ==
  [][\A p \in Procs :
       Replies(p, "register") =>
         /\ resp'[p].message \in RegisterMessages
         /\ DOMAIN resp'[p].data \cap SecretFields = {}
         /\ DOMAIN resp'[p].data = {}]_vars

C26_Witness ==
  \E p, q \in Procs :
    /\ Done(p, "register") /\ resp[p].status = 200 /\ resp[p].data = NoData
    /\ loc[p].verificationToken # NoToken
    /\ Done(q, "register") /\ resp[q].status = 500 /\ resp[q].data = NoData

\* C27: the data of a 200 login response are id and email of the account,
\* name, username and the Firebase ID token, and nothing else: no password
\* digest, isVerified, verificationToken or verificationTokenExpires.
C27_LoginResponseFields ==
  [][\A p \in Procs :
       (Replies(p, "login") /\ resp'[p].status = 200) =>
         /\ DOMAIN resp'[p].data = {"id", "email", "name", "username", "idToken"}
         /\ DOMAIN resp'[p].data \cap SecretFields = {}
         /\ \E u \in Account(req[p].email) :
              /\ resp'[p].data.id = u.id
              /\ resp'[p].data.email = u.email
         /\ resp'[p].data.idToken = IdToken(req[p].email)]_vars

C27_Witness ==
  \E p \in Procs :
    /\ Done(p, "login") /\ LoginSuccess(resp[p])
    /\ resp[p].data.email = req[p].email
    /\ \E u \in Account(req[p].email) : u.password = Hash(req[p].password)

NeverIssued(t) == t \in Tokens /\ t > issued
Expired(t) == \E u \in store : u.verificationToken = t /\ u.verificationTokenExpires <= now

\* C28: a verify call whose token was never handed out, or was handed out
\* and is held by no account any more, or is held by an account but has
\* expired, is answered with the one response 400 "Invalid or expired
\* verification token", the same in the three cases.
C28_TokenInvalidIsOneResponse ==
  [][\A p \in Procs :
       (/\ pc[p] = "ver_find" /\ pc'[p] # "ver_find"
        /\ NeverIssued(req[p].token) \/ Spent(req[p].token) \/ Expired(req[p].token)) =>
         /\ pc'[p] = "done"
         /\ resp'[p] = TokenInvalidError]_vars

C28_Witness ==
  \E p, q \in Procs :
    /\ Done(p, "verify") /\ Spent(req[p].token)
    /\ \E u \in store : u.isVerified
    /\ Done(q, "verify") /\ Expired(req[q].token)
    /\ resp[p] = TokenInvalidError /\ resp[q] = resp[p]

\* Slot p takes a step of a login call: it receives the request, or moves
\* on from one of the two awaits of signinCustomer.
LoginStep(p) ==
  \/ pc[p] = "idle" /\ req'[p].op = "login"
  \/ pc[p] \in {"login_find", "login_firebase"} /\ pc'[p] # pc[p]

\* C29: no step of a login call, whatever its outcome, changes a document
\* of the store or an identity of the provider.
C29_LoginNeverWrites ==
  [][\A p \in Procs : LoginStep(p) => (store' = store /\ provider' = provider)]_vars

C29_Witness ==
  \E p, q \in Procs :
    /\ Done(p, "login") /\ LoginSuccess(resp[p])
    /\ Done(q, "login") /\ resp[q].status = 500
    /\ store # {} /\ provider # {}

\* How far a handler has come: each await of a handler has a higher rank
\* than the ones before it, and the response the highest.
Rank(label) ==
  CASE label = "idle" -> 0
    [] label \in {"reg_find", "ver_find", "login_find"} -> 1
    [] label \in {"reg_hash", "ver_save", "login_firebase"} -> 2
    [] label = "reg_firebase" -> 3
    [] label = "reg_create" -> 4
    [] label = "reg_email" -> 5
    [] label = "done" -> 6

\* C30: a call never goes back to an await it has passed, so each external
\* call of a handler is made at most once; nothing of the call changes
\* without the call moving on; the response is written once, by the step
\* that ends the call; and, every external call returning, each call that
\* was received is answered.
C30_OneResponseNoRetry ==
  /\ [][\A p \in Procs :
          /\ pc'[p] # pc[p] =>
               \/ pc[p] = "done" /\ pc'[p] = "idle"
               \/ pc[p] # "done" /\ Rank(pc'[p]) > Rank(pc[p])
          /\ (loc'[p] # loc[p] \/ resp'[p] # resp[p] \/ req'[p] # req[p]) => pc'[p] # pc[p]
          /\ resp'[p] # resp[p] =>
               \/ pc[p] # "done" /\ pc'[p] = "done" /\ resp[p] = NoResp /\ resp'[p] # NoResp
               \/ pc[p] = "done" /\ pc'[p] = "idle" /\ resp'[p] = NoResp
          /\ pc'[p] = "done" => resp'[p] # NoResp]_vars
  /\ \A p \in Procs : (pc[p] # "idle") ~> (pc[p] = "done")

C30_Witness ==
  \E p, q \in Procs :
    /\ Done(p, "register") /\ resp[p].status = 200 /\ loc[p].mail # NoMail
    /\ Done(q, "verify") /\ resp[q].status = 200

FirebaseCreateErrors == {"auth/email-already-in-use", "auth/network-request-failed"}

\* The register call in slot p has had its identity created by Firebase.
PastFirebaseCreate(p) ==
  \/ pc[p] \in {"reg_create", "reg_email"}
  \/ pc[p] = "done" /\ loc[p].error \notin FirebaseCreateErrors

C32_MailedTokenIsStoredToken ==
  [][\A p \in Procs :
       (pc[p] = "reg_email" /\ loc'[p].mail # NoMail) =>
         \E u \in store :
           /\ u.id = loc[p].user
           /\ loc'[p].mail.to = u.email
           /\ loc'[p].mail.token # NoToken
           /\ u.verificationToken = loc'[p].mail.token \/ u.isVerified
           /\ \A t \in 0..MaxTime :
                FindByToken(store, loc'[p].mail.token, t) \subseteq {u}]_vars

C32_Witness ==
  \E p, q \in Procs :
    /\ Done(p, "register") /\ loc[p].mail # NoMail
    /\ Done(q, "verify") /\ resp[q].status = 200 /\ req[q].token = loc[p].mail.token
    /\ \E u \in store : u.id = loc[p].user /\ u.id = loc[q].user /\ u.isVerified

\* C33: every account of the store has an identity of the same email at the
\* provider; an identity may be without account.
C33_StoreImpliesProvider ==
  \A u \in store : \E i \in provider : i.email = Lower(u.email)

C33_Witness ==
  /\ \E u \in store : \E i \in provider : i.email = u.email
  /\ \E i \in provider : \A u \in store : u.email # i.email
  /\ \A p \in Procs : pc[p] # "reg_create"

\* Firebase holds an identity of the address, the store has no account of
\* it, and no register call is about to create one.
Orphan(e) ==
  /\ HasIdentity(provider, e)
  /\ Account(e) = {}
  /\ \A p \in Procs : ~(pc[p] = "reg_create" /\ SameAddress(req[p].email, e))

\* C34: an orphaned identity stays orphaned: no account of its email is ever
\* created; while it is, a register call for the email with a password is
\* answered 400 "already exists" unless Firebase is out, and a login call
\* for the email with a password is answered 401.
C34_OrphanLocksEmail ==
  [][\A e \in Emails :
       Orphan(e) =>
         /\ Orphan(e)'
         /\ \A p \in Procs :
              /\ (/\ Replies(p, "register") /\ req'[p].email = e
                  /\ req'[p].password # Empty /\ loc'[p].error \notin Outages) =>
                   resp'[p] = DuplicateAccountError
              /\ (Replies(p, "login") /\ req'[p].email = e /\ req'[p].password # Empty) =>
                   resp'[p] = AuthenticationError]_vars

C34_Witness ==
  \E p, q \in Procs :
    /\ Orphan(req[p].email) /\ req[q].email = req[p].email
    /\ Done(p, "register") /\ loc[p].error = "auth/email-already-in-use"
    /\ resp[p] = DuplicateAccountError
    /\ Done(q, "login") /\ resp[q] = AuthenticationError

ExpiredPending(u) ==
  /\ ~u.isVerified
  /\ u.verificationTokenExpires # NoDate /\ u.verificationTokenExpires <= now

\* C35: a pending account whose token has expired is never changed again:
\* it is not verified and gets no new token and no later expiry.
C35_ExpiredStaysPending ==
  [][\A u \in store : ExpiredPending(u) => u \in store']_vars

\* A verify call answered with the success page.
Verified(p) == Done(p, "verify") /\ resp[p] = Response(200, MsgVerified)

\* C36: however the lookups and saves of verify calls with one token
\* interleave, once a call has been answered with the success page the
\* account it found is verified with token and expiry cleared and stays so
\* through the saves of the others, and a save changes no other account.
C36_ConcurrentVerifyFinalState ==
  [][/\ \A p \in Procs :
          Verified(p)' =>
            \E u \in store' : /\ u.id = loc'[p].user
                              /\ u.isVerified
                              /\ u.verificationToken = NoToken
                              /\ u.verificationTokenExpires = NoDate
     /\ \A p \in Procs :
          (pc[p] = "ver_save" /\ pc'[p] = "done") =>
            \A v \in store : v.id # loc[p].user => v \in store']_vars

C36_Witness ==
  \E p, q \in Procs :
    /\ p # q /\ Verified(p) /\ Verified(q)
    /\ req[p].token = req[q].token /\ loc[p].user = loc[q].user
    /\ \E u, v \in store : /\ u.id = loc[p].user /\ u.isVerified
                           /\ v.id # u.id /\ Pending(v)

\* C37: when user.save() fails in verify, the store is left as it was, the
\* call is not answered with the success page, and an account that was
\* pending with the presented token unexpired can still be found by it.
C37_VerifySaveFails ==
  [][\A p \in Procs :
       (pc[p] = "ver_save" /\ pc'[p] = "done" /\ loc'[p].error # "none") =>
         /\ store' = store
         /\ resp'[p].status # 200 /\ resp'[p].message # MsgVerified
         /\ \A u \in store :
              (/\ u.id = loc[p].user /\ ~u.isVerified
               /\ u.verificationToken = req[p].token
               /\ u.verificationTokenExpires > now) =>
                /\ u \in store'
                /\ \E v \in store' : /\ v.verificationToken = req[p].token
                                     /\ v.verificationTokenExpires > now'
                                     /\ v.id = u.id]_vars

C37_Witness ==
  \E p, q \in Procs :
    /\ Done(p, "verify") /\ loc[p].error = "store-unavailable" /\ resp[p].status = 500
    /\ pc[q] = "ver_find" /\ req[q].token = req[p].token
    /\ \E u \in store : /\ u.id = loc[p].user /\ ~u.isVerified
                        /\ u.verificationToken = req[p].token
                        /\ u.verificationTokenExpires > now

\* C38: a pending account holds a token and an expiry; a token is taken off
\* an account only by the save of a verify call that is answered with the
\* success page and leaves the account verified.
C38_PendingHoldsToken ==
  [][/\ \A u \in store' :
          ~u.isVerified =>
            u.verificationToken # NoToken /\ u.verificationTokenExpires # NoDate
     /\ \A u \in store : \A v \in store' :
          (v.id = u.id /\ u.verificationToken # NoToken /\ v.verificationToken = NoToken) =>
            /\ v.isVerified /\ v.verificationTokenExpires = NoDate
            /\ \E p \in Procs : /\ pc[p] = "ver_save" /\ loc[p].user = u.id
                                /\ Verified(p)']_vars

C38_Witness ==
  \E u, v \in store :
    /\ ~u.isVerified /\ u.verificationToken # NoToken
    /\ u.verificationTokenExpires <= now
    /\ v.isVerified /\ v.verificationToken = NoToken

====
